---- MODULE Spec2Model ----
(***************************************************************************)
(* A model of package wasmecdict (ecdict.go): the two package-level maps,  *)
(* their loader loadDict with the two parsers parseDict and parseLemma,    *)
(* and the query LookUp.                                                   *)
(*                                                                         *)
(* Strings are sequences of one-character strings, so that TrimSpace,      *)
(* ToLower, ReplaceAll, Split and HasPrefix are computed character by      *)
(* character as the Go library computes them.  The dictionary asset is the *)
(* sequence of records the csv tokenizer yields (quoting is not modelled;  *)
(* the reader's field-count rule is).  The lemma asset is a character      *)
(* buffer that the scanner cuts into lines.                                *)
(*                                                                         *)
(* Goroutines take one step per access to a package-level map.  init()     *)
(* returns before any other goroutine can call into the package, so the    *)
(* only unsynchronised stores to the two map variables are those of calls  *)
(* that found a map empty after init; such a call parses the same asset    *)
(* to an empty map again, and a racing reader gets the old empty map or    *)
(* the new one.                                                            *)
(***************************************************************************)
EXTENDS Integers, Sequences, FiniteSets, TLC

(***************************************************************************)
(* Bounds of the model.                                                    *)
(***************************************************************************)
\* longest dictionary asset, in records
MaxRows == 3
\* longest lemma asset, in lines
MaxLines == 2
\* most whitespace characters put on either side of a looked-up word
MaxPad == 1

\* ecdict.go:75
rowElementCount == 13

(***************************************************************************)
(* package strings                                                         *)
(***************************************************************************)
\* unicode.IsSpace on the characters the model uses
IsSpace(c) == c \in {" ", "\t", "\n", "\r"}

SetMin(S) == CHOOSE x \in S : \A y \in S : x <= y
SetMax(S) == CHOOSE x \in S : \A y \in S : x >= y

\* a plausible slip: only the leading white space is cut
TrimLeftOnly(s) ==
  LET keep == {i \in 1..Len(s) : ~IsSpace(s[i])}
  IN  IF keep = {} THEN <<>> ELSE SubSeq(s, SetMin(keep), Len(s))

\* strings.TrimSpace
TrimSpace(s) ==
  LET keep == {i \in 1..Len(s) : ~IsSpace(s[i])}
  IN  IF keep = {} THEN <<>> ELSE SubSeq(s, SetMin(keep), SetMax(keep))

UpperLetters ==
  <<"A","B","C","D","E","F","G","H","I","J","K","L","M",
    "N","O","P","Q","R","S","T","U","V","W","X","Y","Z">>
LowerLetters ==
  <<"a","b","c","d","e","f","g","h","i","j","k","l","m",
    "n","o","p","q","r","s","t","u","v","w","x","y","z">>

LowerChar(c) ==
  IF \E i \in 1..Len(UpperLetters) : UpperLetters[i] = c
  THEN LowerLetters[CHOOSE i \in 1..Len(UpperLetters) : UpperLetters[i] = c]
  ELSE c

\* strings.ToLower
ToLower(s) == [i \in 1..Len(s) |-> LowerChar(s[i])]

\* strings.HasPrefix
HasPrefix(s, prefix) ==
  Len(s) >= Len(prefix) /\ SubSeq(s, 1, Len(prefix)) = prefix

\* strings.ReplaceAll, for a non-empty old
RECURSIVE ReplaceAll(_, _, _)
ReplaceAll(s, old, new) ==
  IF Len(s) < Len(old) THEN s
  ELSE IF SubSeq(s, 1, Len(old)) = old
       THEN new \o ReplaceAll(SubSeq(s, Len(old) + 1, Len(s)), old, new)
       ELSE <<s[1]>> \o ReplaceAll(Tail(s), old, new)

\* strings.Split, for a non-empty sep: cur is the part being read
RECURSIVE SplitFrom(_, _, _)
SplitFrom(s, sep, cur) ==
  IF Len(s) < Len(sep) THEN <<cur \o s>>
  ELSE IF SubSeq(s, 1, Len(sep)) = sep
       THEN <<cur>> \o SplitFrom(SubSeq(s, Len(sep) + 1, Len(s)), sep, <<>>)
       ELSE SplitFrom(Tail(s), sep, Append(cur, s[1]))

Split(s, sep) == SplitFrom(s, sep, <<>>)

(***************************************************************************)
(* package bufio: the lines a Scanner with the default split function      *)
(* (ScanLines) yields: cut at each line feed, one trailing carriage return *)
(* dropped, no empty last line after a final line feed.                    *)
(***************************************************************************)
DropCR(s) ==
  IF Len(s) > 0 /\ s[Len(s)] = "\r" THEN SubSeq(s, 1, Len(s) - 1) ELSE s

ScanLines(buf) ==
  LET parts == Split(buf, <<"\n">>)
      kept  == IF parts[Len(parts)] = <<>>
               THEN SubSeq(parts, 1, Len(parts) - 1) ELSE parts
  IN  [i \in 1..Len(kept) |-> DropCR(kept[i])]

(***************************************************************************)
(* Go maps, as functions from the keys present                             *)
(***************************************************************************)
EmptyMap == <<>>
MapLen(m) == Cardinality(DOMAIN m)
MapSet(m, k, v) == [x \in (DOMAIN m) \cup {k} |-> IF x = k THEN v ELSE m[x]]

(***************************************************************************)
(* type DictItem (ecdict.go:19-33) and the zero value a failed map read    *)
(* leaves in a variable of that type                                       *)
(***************************************************************************)
DictItemFields ==
  {"Word", "Phonetic", "Definition", "Translation", "Pos", "Collins",
   "Oxford", "Tag", "Bnc", "Frq", "Exchange", "Detail", "Audio"}

ZeroDictItem == [f \in DictItemFields |-> <<>>]

(***************************************************************************)
(* encoding/csv: a Reader made by csv.NewReader has FieldsPerRecord = 0,   *)
(* so Read sets it to the field count of the first record and returns      *)
(* ErrFieldCount, with the record, for every later record of another       *)
(* count.                                                                  *)
(***************************************************************************)
NewReader == [pos |-> 1, FieldsPerRecord |-> 0]

Read(rd, csv) ==
  IF rd.pos > Len(csv)
  THEN [err |-> "EOF", record |-> <<>>, r |-> rd]
  ELSE LET rec == csv[rd.pos]
       IN  [err    |-> IF /\ rd.FieldsPerRecord > 0
                          /\ Len(rec) # rd.FieldsPerRecord
                       THEN "ErrFieldCount" ELSE "nil",
            record |-> rec,
            r      |-> [pos |-> rd.pos + 1,
                        FieldsPerRecord |->
                          IF rd.FieldsPerRecord = 0 THEN Len(rec)
                          ELSE rd.FieldsPerRecord]]

(***************************************************************************)
(* parseDict, one record at a time                                         *)
(***************************************************************************)
\* a plausible slip: the escape is left as it is
removeBrNothing(w) == w

\* removeBr (ecdict.go:115-117): backslash, n  ->  line feed
removeBr(w) == ReplaceAll(w, <<"\\", "n">>, <<"\n">>)

\* the composite literal of ecdict.go:91-105
MakeDictItem(word, record) ==
  [Word        |-> word,
   Phonetic    |-> record[2],
   Definition  |-> removeBr(record[3]),
   Translation |-> removeBr(record[4]),
   Pos         |-> record[5],
   Collins     |-> record[6],
   Oxford      |-> record[7],
   Tag         |-> record[8],
   Bnc         |-> record[9],
   Frq         |-> record[10],
   Exchange    |-> record[11],
   Detail      |-> record[12],
   Audio       |-> record[13]]

\* a plausible slip: the lower-case key is written only when it is free
DictStoreFirstWins(dictMap, word, dictItem) ==
  LET m == MapSet(dictMap, word, dictItem)
  IN  IF ToLower(word) \in DOMAIN m THEN m
      ELSE MapSet(m, ToLower(word), dictItem)

\* ecdict.go:110-111
DictStore(dictMap, word, dictItem) ==
  MapSet(MapSet(dictMap, word, dictItem), ToLower(word), dictItem)

\* the header test of ecdict.go:106
IsHeader(dictItem) ==
  /\ dictItem.Word = <<"w", "o", "r", "d">>
  /\ dictItem.Phonetic = <<"p", "h", "o", "n", "e", "t", "i", "c">>

\* the loop body of parseDict after a successful Read (ecdict.go:84-111)
ParseDictRow(dictMap, record) ==
  IF rowElementCount # Len(record) THEN dictMap
  ELSE LET word == TrimSpace(record[1])
       IN  IF word = <<>> THEN dictMap
           ELSE LET dictItem == MakeDictItem(word, record)
                IN  IF IsHeader(dictItem) THEN dictMap
                    ELSE DictStore(dictMap, word, dictItem)

(***************************************************************************)
(* parseLemma, one line at a time                                          *)
(***************************************************************************)
\* a plausible slip: the loop ends after the first token
StoreLemmasFirstOnly(lemmaMap, lParts, originalWord) ==
  IF lParts = <<>> \/ TrimSpace(Head(lParts)) = <<>> THEN lemmaMap
  ELSE MapSet(lemmaMap, TrimSpace(Head(lParts)), originalWord)

\* the inner loop, ecdict.go:140-146
RECURSIVE StoreLemmas(_, _, _)
StoreLemmas(lemmaMap, lParts, originalWord) ==
  IF lParts = <<>> THEN lemmaMap
  ELSE LET lemma == TrimSpace(Head(lParts))
       IN  StoreLemmas(IF lemma = <<>> THEN lemmaMap
                       ELSE MapSet(lemmaMap, lemma, originalWord),
                       Tail(lParts), originalWord)

\* the loop body of parseLemma (ecdict.go:123-146)
ParseLemmaLine(lemmaMap, text) ==
  LET line == TrimSpace(text)
  IN  IF HasPrefix(line, <<";">>) THEN lemmaMap
      ELSE LET parts == Split(line, <<" ", "-", ">", " ">>)
           IN  IF Len(parts) # 2 THEN lemmaMap
               ELSE LET rParts == Split(parts[1], <<"/">>)
                        lParts == Split(parts[2], <<",">>)
                        originalWord == IF Len(rParts) > 0
                                        THEN TrimSpace(rParts[1]) ELSE <<>>
                    IN  IF originalWord = <<>> THEN lemmaMap
                        ELSE StoreLemmas(lemmaMap, lParts, originalWord)

(***************************************************************************)
(* The assets the model loads.  ecdict.csv and lemma.en.txt are embedded   *)
(* at build time (ecdict.go:13-17); the model draws them from the records  *)
(* and lines below.                                                        *)
(***************************************************************************)
Fields13(word, phonetic, definition, translation) ==
  <<word, phonetic, definition, translation,
    <<"v">>, <<"1">>, <<>>, <<>>, <<>>, <<>>, <<>>, <<"{", "}">>, <<>>>>

HeaderRow ==
  Fields13(<<"w", "o", "r", "d">>,
           <<"p", "h", "o", "n", "e", "t", "i", "c">>,
           <<"d", "e", "f">>, <<"t", "r">>)
\* definition and translation carry escaped line breaks
RowRun ==
  Fields13(<<"r", "u", "n">>, <<"r", "^", "n">>,
           <<"g", "o", "\\", "n", "u", "p", "\\", "n">>,
           <<"p", "\\", "n", "q">>)
\* the same word with other data
RowRunAgain ==
  Fields13(<<"r", "u", "n">>, <<"r", "a", "n">>, <<"r", "a", "c", "e">>, <<>>)
\* another case of the same word
RowRunCap ==
  Fields13(<<"R", "u", "n">>, <<"R", "^", "N">>, <<"a">>,
           <<"s", "\\", "n", "i">>)
\* a first field with white space around the word
RowRunsPadded ==
  Fields13(<<" ", "r", "u", "n", "s", " ">>, <<"r", "^", "n", "z">>,
           <<"b">>, <<"c">>)
\* a first field of white space only
RowBlank == Fields13(<<" ", " ">>, <<"x">>, <<"y">>, <<"z">>)
\* twelve fields
RowShort == SubSeq(Fields13(<<"z", "z">>, <<"z">>, <<"d">>, <<"t">>), 1, 12)

Rows ==
  {HeaderRow, RowRun, RowRunAgain, RowRunCap, RowRunsPadded, RowBlank,
   RowShort}

\* "runs/running -> run"
LineFormsLeft ==
  <<"r", "u", "n", "s", "/", "r", "u", "n", "n", "i", "n", "g",
    " ", "-", ">", " ", "r", "u", "n">>
\* "run/12 -> runs,running"
LineBaseLeft ==
  <<"r", "u", "n", "/", "1", "2", " ", "-", ">", " ",
    "r", "u", "n", "s", ",", "r", "u", "n", "n", "i", "n", "g">>
\* "; run -> ran"
LineComment == <<";", " ", "r", "u", "n", " ", "-", ">", " ", "r", "a", "n">>
\* "Run -> runs" with a carriage return before the line feed
LineCapCR == <<"R", "u", "n", " ", "-", ">", " ", "r", "u", "n", "s", "\r">>
\* "run -> ran -> runs"
LineTwoArrows ==
  <<"r", "u", "n", " ", "-", ">", " ", "r", "a", "n",
    " ", "-", ">", " ", "r", "u", "n", "s">>
\* "/x -> ran"
LineNoOriginal == <<"/", "x", " ", "-", ">", " ", "r", "a", "n">>
\* "run -> , ran ,"
LineEmptyTokens ==
  <<"r", "u", "n", " ", "-", ">", " ", ",", " ", "r", "a", "n", " ", ",">>

Lines ==
  {LineFormsLeft, LineBaseLeft, LineComment, LineCapCR, LineTwoArrows,
   LineNoOriginal, LineEmptyTokens}

SeqsUpTo(S, n) == UNION {[1..k -> S] : k \in 0..n}

\* a text file of the lines given, each ended by a line feed
RECURSIVE JoinLines(_)
JoinLines(ls) ==
  IF ls = <<>> THEN <<>> ELSE Head(ls) \o <<"\n">> \o JoinLines(Tail(ls))

\* the words looked up, before white space is put around them
Cores ==
  {<<"r", "u", "n">>, <<"R", "u", "n">>, <<"r", "u", "n", "s">>,
   <<"r", "u", "n", "n", "i", "n", "g">>, <<"r", "a", "n">>, <<"z", "z">>}

Pads == SeqsUpTo({" "}, MaxPad)

Queries == [core : Cores, left : Pads, right : Pads]

NoQuery == [core |-> <<>>, left |-> <<>>, right |-> <<>>]

Padded(q) == q.left \o q.core \o q.right

(***************************************************************************)
(* State.  main is the goroutine that runs the package's init and then     *)
(* calls into the package; g1 is a goroutine started after init.           *)
(***************************************************************************)
Procs == {"main", "g1"}

VARIABLES
  ecdictCsv,          \* the dictionary asset: a sequence of records
  lemmaEnTxt,         \* the lemma asset: a character buffer
  dictMapSingleton,   \* ecdict.go:56
  lemmaMapSingleton,  \* ecdict.go:57
  fatal,              \* log.Fatal has ended the process
  initDone,           \* init() has returned
  firstLoad,          \* history: the two maps as init's loadDict left them
  pc,                 \* where each goroutine is
  frame,              \* the outermost call each goroutine is in
  query,              \* LookUp's argument, in parts
  word,               \* LookUp's parameter word
  baseWord,           \* LookUp's baseWord
  dictMap,            \* parseDict's dictMap
  r,                  \* parseDict's r
  lemmaMap,           \* parseLemma's lemmaMap
  scanner,            \* parseLemma's scanner: the index of the next line
  dictItem,           \* LookUp's dictItem, whose address it returns
  result              \* the pointer LookUp returned

vars ==
  <<ecdictCsv, lemmaEnTxt, dictMapSingleton, lemmaMapSingleton, fatal,
    initDone, firstLoad, pc, frame, query, word, baseWord, dictMap, r,
    lemmaMap, scanner, dictItem, result>>

assets == <<ecdictCsv, lemmaEnTxt>>
shared == <<dictMapSingleton, lemmaMapSingleton>>
dictLocals == <<dictMap, r>>
lemmaLocals == <<lemmaMap, scanner>>
lookLocals == <<query, word, baseWord, dictItem, result>>

NilPtr == [kind |-> "nil"]

\* the state once the package-level variables are initialised, before init()
InitRest ==
  /\ dictMapSingleton = EmptyMap
  /\ lemmaMapSingleton = EmptyMap
  /\ fatal = FALSE
  /\ initDone = FALSE
  /\ firstLoad = [dict |-> EmptyMap, lemma |-> EmptyMap]
  /\ pc = [p \in Procs |-> IF p = "main" THEN "init" ELSE "idle"]
  /\ frame = [p \in Procs |-> "none"]
  /\ query = [p \in Procs |-> NoQuery]
  /\ word = [p \in Procs |-> <<>>]
  /\ baseWord = [p \in Procs |-> <<>>]
  /\ dictMap = [p \in Procs |-> EmptyMap]
  /\ r = [p \in Procs |-> NewReader]
  /\ lemmaMap = [p \in Procs |-> EmptyMap]
  /\ scanner = [p \in Procs |-> 1]
  /\ dictItem = [p \in Procs |-> ZeroDictItem]
  /\ result = [p \in Procs |-> NilPtr]

\* a dictionary with a header, both cases of a word and an inflected form,
\* and the two shapes of lemma rule
FixedCsvs ==
  {<<HeaderRow, RowRun, RowRunsPadded>>, <<RowRunCap, RowRun, RowRunsPadded>>}
FixedTxts == {JoinLines(<<LineBaseLeft>>), JoinLines(<<LineFormsLeft>>)}

Init ==
  /\ \/ /\ ecdictCsv \in SeqsUpTo(Rows, MaxRows)
        /\ lemmaEnTxt \in FixedTxts
     \/ /\ ecdictCsv \in FixedCsvs
        /\ lemmaEnTxt \in {JoinLines(ls) : ls \in SeqsUpTo(Lines, MaxLines)}
  /\ InitRest

(***************************************************************************)
(* loadDict (ecdict.go:62-69)                                              *)
(***************************************************************************)
\* a slip in the test: the other map, the other sense
NeedDictWrongMap(d, l) == MapLen(l) # 0

\* ecdict.go:63
NeedDict(d, l) == MapLen(d) = 0

\* a slip in the test: always rebuild
NeedLemmaAlways(d, l) == TRUE

\* ecdict.go:66
NeedLemma(d, l) == MapLen(l) = 0

\* func init (ecdict.go:59-61)
RunInit(p) ==
  /\ ~fatal
  /\ pc[p] = "init"
  /\ pc' = [pc EXCEPT ![p] = "ld_dict"]
  /\ frame' = [frame EXCEPT ![p] = "init"]
  /\ UNCHANGED <<assets, shared, fatal, initDone, firstLoad, dictLocals,
                 lemmaLocals, lookLocals>>

\* a direct call of loadDict
LoadDictCall(p) ==
  /\ ~fatal
  /\ initDone
  /\ pc[p] = "idle"
  /\ pc' = [pc EXCEPT ![p] = "ld_dict"]
  /\ frame' = [frame EXCEPT ![p] = "loadDict"]
  /\ UNCHANGED <<assets, shared, fatal, initDone, firstLoad, dictLocals,
                 lemmaLocals, lookLocals>>

\* ecdict.go:63, and the first lines of parseDict (72-75) when it is called
LoadCheckDict(p) ==
  /\ ~fatal
  /\ pc[p] = "ld_dict"
  /\ IF NeedDict(dictMapSingleton, lemmaMapSingleton)
     THEN /\ pc' = [pc EXCEPT ![p] = "pd_read"]
          /\ dictMap' = [dictMap EXCEPT ![p] = EmptyMap]
          /\ r' = [r EXCEPT ![p] = NewReader]
     ELSE /\ pc' = [pc EXCEPT ![p] = "ld_lemma"]
          /\ UNCHANGED dictLocals
  /\ UNCHANGED <<assets, shared, fatal, initDone, firstLoad, frame,
                 lemmaLocals, lookLocals>>

\* a plausible slip: dictMap is the package's map itself
SharedAfterStoreAliased(sharedMap, localMap) == localMap

\* ecdict.go:72: dictMap is a fresh map of parseDict's own, so a store into
\* it (ecdict.go:110-111) leaves the package's map as it is
SharedAfterStore(sharedMap, localMap) == sharedMap

\* one turn of parseDict's loop (ecdict.go:76-112)
ParseDictRead(p) ==
  /\ ~fatal
  /\ pc[p] = "pd_read"
  /\ LET rd == Read(r[p], ecdictCsv)
     IN  /\ r' = [r EXCEPT ![p] = rd.r]
         /\ IF rd.err = "EOF"
            THEN /\ pc' = [pc EXCEPT ![p] = "pd_ret"]
                 /\ UNCHANGED <<dictMap, dictMapSingleton, fatal>>
            ELSE IF rd.err # "nil"
            THEN /\ fatal' = TRUE
                 /\ UNCHANGED <<dictMap, dictMapSingleton, pc>>
            ELSE /\ dictMap' = [dictMap EXCEPT
                                  ![p] = ParseDictRow(dictMap[p], rd.record)]
                 /\ dictMapSingleton' =
                      SharedAfterStore(dictMapSingleton, dictMap'[p])
                 /\ UNCHANGED <<pc, fatal>>
  /\ UNCHANGED <<assets, lemmaMapSingleton, initDone, firstLoad, frame,
                 lemmaLocals, lookLocals>>

\* parseDict returns and loadDict stores the map (ecdict.go:113, 64)
ParseDictReturn(p) ==
  /\ ~fatal
  /\ pc[p] = "pd_ret"
  /\ dictMapSingleton' = dictMap[p]
  /\ dictMap' = [dictMap EXCEPT ![p] = EmptyMap]
  /\ r' = [r EXCEPT ![p] = NewReader]
  /\ pc' = [pc EXCEPT ![p] = "ld_lemma"]
  /\ UNCHANGED <<assets, lemmaMapSingleton, fatal, initDone, firstLoad,
                 frame, lemmaLocals, lookLocals>>

\* loadDict returns to init, to a direct caller or into LookUp; the maps
\* primed are those the returning step leaves
LoadReturn(p) ==
  /\ pc' = [pc EXCEPT ![p] = IF frame[p] = "LookUp" THEN "lk_lemma"
                             ELSE "idle"]
  /\ frame' = [frame EXCEPT ![p] = IF frame[p] = "LookUp" THEN "LookUp"
                                   ELSE "none"]
  /\ initDone' = (initDone \/ frame[p] = "init")
  /\ firstLoad' = IF frame[p] = "init"
                  THEN [dict |-> dictMapSingleton',
                        lemma |-> lemmaMapSingleton']
                  ELSE firstLoad

\* ecdict.go:66 with the map non-empty: loadDict returns
LoadSkipLemma(p) ==
  /\ ~fatal
  /\ pc[p] = "ld_lemma"
  /\ ~NeedLemma(dictMapSingleton, lemmaMapSingleton)
  /\ UNCHANGED <<assets, shared, fatal, dictLocals, lemmaLocals, lookLocals>>
  /\ LoadReturn(p)

\* ecdict.go:66 with the map empty, and the first lines of parseLemma
LoadCheckLemma(p) ==
  /\ ~fatal
  /\ pc[p] = "ld_lemma"
  /\ NeedLemma(dictMapSingleton, lemmaMapSingleton)
  /\ pc' = [pc EXCEPT ![p] = "pl_scan"]
  /\ lemmaMap' = [lemmaMap EXCEPT ![p] = EmptyMap]
  /\ scanner' = [scanner EXCEPT ![p] = 1]
  /\ UNCHANGED <<assets, shared, fatal, initDone, firstLoad, frame,
                 dictLocals, lookLocals>>

\* one turn of parseLemma's loop (ecdict.go:122-147)
ParseLemmaScan(p) ==
  /\ ~fatal
  /\ pc[p] = "pl_scan"
  /\ LET ls == ScanLines(lemmaEnTxt)
     IN  IF scanner[p] > Len(ls)
         THEN /\ pc' = [pc EXCEPT ![p] = "pl_ret"]
              /\ UNCHANGED lemmaLocals
         ELSE /\ lemmaMap' = [lemmaMap EXCEPT
                                ![p] = ParseLemmaLine(lemmaMap[p],
                                                      ls[scanner[p]])]
              /\ scanner' = [scanner EXCEPT ![p] = scanner[p] + 1]
              /\ UNCHANGED pc
  /\ UNCHANGED <<assets, shared, fatal, initDone, firstLoad, frame,
                 dictLocals, lookLocals>>

\* parseLemma returns, loadDict stores the map and returns (ecdict.go:148, 67)
ParseLemmaReturn(p) ==
  /\ ~fatal
  /\ pc[p] = "pl_ret"
  /\ lemmaMapSingleton' = lemmaMap[p]
  /\ lemmaMap' = [lemmaMap EXCEPT ![p] = EmptyMap]
  /\ scanner' = [scanner EXCEPT ![p] = 1]
  /\ UNCHANGED <<assets, dictMapSingleton, fatal, dictLocals, lookLocals>>
  /\ LoadReturn(p)

(***************************************************************************)
(* LookUp (ecdict.go:164-176) and what a caller does with its result       *)
(***************************************************************************)
\* a plausible slip: the dictionary is asked first
ResolveBaseDictFirst(w, lemmas) ==
  IF w \in DOMAIN dictMapSingleton THEN w
  ELSE IF w \in DOMAIN lemmas THEN lemmas[w] ELSE w

\* ecdict.go:167-170
ResolveBase(w, lemmas) == IF w \in DOMAIN lemmas THEN lemmas[w] ELSE w

\* a plausible slip: a pointer to the value the map holds (a map of pointers)
ResultPtrIntoMap(p, key) == [kind |-> "map", key |-> key]

\* ecdict.go:175: the address of LookUp's own variable dictItem, which holds
\* a copy of the map's value
ResultPtr(p, key) == [kind |-> "var", owner |-> p]

\* the DictItem a pointer leads to
Deref(ptr) ==
  IF ptr.kind = "var" THEN dictItem[ptr.owner]
  ELSE dictMapSingleton[ptr.key]

\* LookUp is called (ecdict.go:164)
LookUpCall(p, q) ==
  /\ ~fatal
  /\ initDone
  /\ pc[p] = "idle"
  /\ pc' = [pc EXCEPT ![p] = "ld_dict"]
  /\ frame' = [frame EXCEPT ![p] = "LookUp"]
  /\ query' = [query EXCEPT ![p] = q]
  /\ word' = [word EXCEPT ![p] = Padded(q)]
  /\ UNCHANGED <<assets, shared, fatal, initDone, firstLoad, baseWord,
                 dictLocals, lemmaLocals, dictItem, result>>

\* ecdict.go:166-170
LookUpLemma(p) ==
  /\ ~fatal
  /\ pc[p] = "lk_lemma"
  /\ LET w == TrimSpace(word[p])
     IN  /\ word' = [word EXCEPT ![p] = w]
         /\ baseWord' = [baseWord EXCEPT
                           ![p] = ResolveBase(w, lemmaMapSingleton)]
  /\ pc' = [pc EXCEPT ![p] = "lk_dict"]
  /\ UNCHANGED <<assets, shared, fatal, initDone, firstLoad, frame, query,
                 dictLocals, lemmaLocals, dictItem, result>>

\* ecdict.go:171-175
LookUpDict(p) ==
  /\ ~fatal
  /\ pc[p] = "lk_dict"
  /\ IF baseWord[p] \in DOMAIN dictMapSingleton
     THEN /\ dictItem' = [dictItem EXCEPT
                            ![p] = dictMapSingleton[baseWord[p]]]
          /\ result' = [result EXCEPT ![p] = ResultPtr(p, baseWord[p])]
     ELSE /\ dictItem' = [dictItem EXCEPT ![p] = ZeroDictItem]
          /\ result' = [result EXCEPT ![p] = NilPtr]
  /\ pc' = [pc EXCEPT ![p] = "ret"]
  /\ frame' = [frame EXCEPT ![p] = "none"]
  /\ UNCHANGED <<assets, shared, fatal, initDone, firstLoad, query, word,
                 baseWord, dictLocals, lemmaLocals>>

\* the fields a caller writes, and what it writes
WrittenFields == {"Word", "Definition"}
Scribble == <<"#">>

\* the caller assigns to a field through the pointer it was given
CallerWrite(p, f) ==
  /\ ~fatal
  /\ pc[p] = "ret"
  /\ result[p] # NilPtr
  /\ IF result[p].kind = "var"
     THEN /\ dictItem' = [dictItem EXCEPT ![result[p].owner][f] = Scribble]
          /\ UNCHANGED dictMapSingleton
     ELSE /\ dictMapSingleton' =
               [dictMapSingleton EXCEPT ![result[p].key][f] = Scribble]
          /\ UNCHANGED dictItem
  /\ pc' = [pc EXCEPT ![p] = "wrote"]
  /\ UNCHANGED <<assets, lemmaMapSingleton, fatal, initDone, firstLoad,
                 frame, query, word, baseWord, dictLocals, lemmaLocals,
                 result>>

\* the caller drops the result
CallerDone(p) ==
  /\ ~fatal
  /\ pc[p] \in {"ret", "wrote"}
  /\ pc' = [pc EXCEPT ![p] = "idle"]
  /\ query' = [query EXCEPT ![p] = NoQuery]
  /\ word' = [word EXCEPT ![p] = <<>>]
  /\ baseWord' = [baseWord EXCEPT ![p] = <<>>]
  /\ dictItem' = [dictItem EXCEPT ![p] = ZeroDictItem]
  /\ result' = [result EXCEPT ![p] = NilPtr]
  /\ UNCHANGED <<assets, shared, fatal, initDone, firstLoad, frame,
                 dictLocals, lemmaLocals>>

(***************************************************************************)
(* Specifications.  Spec: one goroutine, every asset of the bounds, the    *)
(* words looked up as they are.                                            *)
(* SpecConc: two goroutines, a few assets, among them those whose maps     *)
(* come out empty and are rebuilt by every call, padded words looked up.   *)
(***************************************************************************)
Step(p, qs) ==
  \/ RunInit(p)
  \/ LoadDictCall(p)
  \/ LoadCheckDict(p)
  \/ ParseDictRead(p)
  \/ ParseDictReturn(p)
  \/ LoadSkipLemma(p)
  \/ LoadCheckLemma(p)
  \/ ParseLemmaScan(p)
  \/ ParseLemmaReturn(p)
  \/ \E q \in qs : LookUpCall(p, q)
  \/ LookUpLemma(p)
  \/ LookUpDict(p)
  \/ \E f \in WrittenFields : CallerWrite(p, f)
  \/ CallerDone(p)

\* the words as they are, no white space added
BareQueries == {q \in Queries : q.left = <<>> /\ q.right = <<>>}

Next == Step("main", BareQueries)

Spec == Init /\ [][Next]_vars

ConcCsvs ==
  {<<HeaderRow, RowBlank>>, <<HeaderRow, RowRun, RowRunsPadded>>,
   <<RowRunCap, RowShort>>}
ConcTxts ==
  {JoinLines(<<LineComment>>), JoinLines(<<LineBaseLeft>>),
   JoinLines(<<LineFormsLeft>>), JoinLines(<<LineCapCR, LineBaseLeft>>),
   JoinLines(<<LineBaseLeft, LineCapCR>>)}
\* "run" and "running" as they are, "runs" with every padding
ConcQueries ==
  {q \in BareQueries :
     q.core \in {<<"r", "u", "n">>, <<"r", "u", "n", "n", "i", "n", "g">>}}
  \cup {q \in Queries : q.core = <<"r", "u", "n", "s">>}

InitConc ==
  /\ ecdictCsv \in ConcCsvs
  /\ lemmaEnTxt \in ConcTxts
  /\ InitRest

NextConc == \E p \in Procs : Step(p, ConcQueries)

SpecConc == InitConc /\ [][NextConc]_vars

(***************************************************************************)
(* What the properties below speak of, stated on the assets themselves.    *)
(***************************************************************************)
\* every backslash-n pair of s replaced by a line feed, by position
EscapeStarts(s) == {i \in 1..(Len(s) - 1) : s[i] = "\\" /\ s[i + 1] = "n"}

Unescaped(s) ==
  LET out[i \in 0..Len(s)] ==
        IF i = 0 THEN <<>>
        ELSE IF (i - 1) \in EscapeStarts(s) THEN out[i - 1]
        ELSE IF i \in EscapeStarts(s) THEN Append(out[i - 1], "\n")
        ELSE Append(out[i - 1], s[i])
  IN  out[Len(s)]

RowWord(rec) == TrimSpace(rec[1])

\* a row that is to have an entry
ValidRow(rec) ==
  /\ Len(rec) = 13
  /\ RowWord(rec) # <<>>
  /\ ~(RowWord(rec) = <<"w", "o", "r", "d">>
       /\ rec[2] = <<"p", "h", "o", "n", "e", "t", "i", "c">>)

\* the entry a valid row is to give
ExpectedItem(rec) ==
  [Word        |-> RowWord(rec),
   Phonetic    |-> rec[2],
   Definition  |-> Unescaped(rec[3]),
   Translation |-> Unescaped(rec[4]),
   Pos         |-> rec[5],
   Collins     |-> rec[6],
   Oxford      |-> rec[7],
   Tag         |-> rec[8],
   Bnc         |-> rec[9],
   Frq         |-> rec[10],
   Exchange    |-> rec[11],
   Detail      |-> rec[12],
   Audio       |-> rec[13]]

RowIndexes == 1..Len(ecdictCsv)

\* row i is stored under key k
WritesKey(i, k) ==
  /\ ValidRow(ecdictCsv[i])
  /\ (RowWord(ecdictCsv[i]) = k \/ ToLower(RowWord(ecdictCsv[i])) = k)

\* row i is the last row of the asset stored under key k
LastWriter(i, k) ==
  /\ WritesKey(i, k)
  /\ \A j \in RowIndexes : j > i => ~WritesKey(j, k)

\* LookUp has returned to p and p has not yet touched the result
Returned(p) == pc[p] = "ret"

\* p's LookUp returned the entry item
Answered(p, item) == result[p] # NilPtr /\ Deref(result[p]) = item

\* p's and q's LookUp returned the same: both nothing, or equal entries
SameAnswer(p, q) ==
  \/ result[p] = NilPtr /\ result[q] = NilPtr
  \/ /\ result[p] # NilPtr
     /\ result[q] # NilPtr
     /\ Deref(result[p]) = Deref(result[q])

InLoad(p) == pc[p] \in {"ld_dict", "pd_read", "pd_ret", "ld_lemma",
                        "pl_scan", "pl_ret"}

(***************************************************************************)
(* C1                                                                      *)
(***************************************************************************)
\* C1, as claimed: when LookUp is given the word of a valid row, or its
\* lower-case form, it returns that row's entry (first field trimmed,
\* escaped line breaks of definition and translation decoded).
C1_EveryRowFound ==
  \A p \in Procs : Returned(p) =>
    \A i \in RowIndexes :
      (/\ ValidRow(ecdictCsv[i])
       /\ Padded(query[p]) \in {RowWord(ecdictCsv[i]),
                                ToLower(RowWord(ecdictCsv[i]))})
      => Answered(p, ExpectedItem(ecdictCsv[i]))

\* C1, amended: the same for a row that is the last valid row stored under
\* the key looked up, when that key is not a key of the lemma map.
C1_LastRowFound ==
  \A p \in Procs : Returned(p) =>
    \A i \in RowIndexes :
      (/\ ValidRow(ecdictCsv[i])
       /\ Padded(query[p]) \in {RowWord(ecdictCsv[i]),
                                ToLower(RowWord(ecdictCsv[i]))}
       /\ LastWriter(i, Padded(query[p]))
       /\ Padded(query[p]) \notin DOMAIN lemmaMapSingleton)
      => Answered(p, ExpectedItem(ecdictCsv[i]))

\* C1, witness: the lower-case form of a capitalised word is looked up and
\* the entry returned has a decoded line break
C1_Witness ==
  \E p \in Procs, i \in RowIndexes :
    /\ Returned(p)
    /\ LastWriter(i, Padded(query[p]))
    /\ Padded(query[p]) = ToLower(RowWord(ecdictCsv[i]))
    /\ Padded(query[p]) # RowWord(ecdictCsv[i])
    /\ Padded(query[p]) \notin DOMAIN lemmaMapSingleton
    /\ Unescaped(ecdictCsv[i][4]) # ecdictCsv[i][4]
    /\ Answered(p, ExpectedItem(ecdictCsv[i]))

(***************************************************************************)
(* C2                                                                      *)
(***************************************************************************)
LemmaLineAt(i) == ScanLines(lemmaEnTxt)[i]
LemmaLineIndexes == 1..Len(ScanLines(lemmaEnTxt))

\* a line that stores a mapping for the form
MapsForm(line, form) == form \in DOMAIN ParseLemmaLine(EmptyMap, line)

\* C2, as claimed: with the rule line "runs/running -> run" and "run" a key
\* of the dictionary, LookUp("runs") and LookUp("running") return what
\* LookUp("run") returns.
C2_FormsOnTheLeft ==
  \A p \in Procs, q \in Procs :
    (/\ Returned(p)
     /\ Returned(q)
     /\ \E i \in LemmaLineIndexes : LemmaLineAt(i) = LineFormsLeft
     /\ <<"r", "u", "n">> \in DOMAIN dictMapSingleton
     /\ Padded(query[p]) \in {<<"r", "u", "n", "s">>,
                              <<"r", "u", "n", "n", "i", "n", "g">>}
     /\ Padded(query[q]) = <<"r", "u", "n">>)
    => SameAnswer(p, q)

\* C2, amended: with the rule line "run/12 -> runs,running" (the base word
\* first on the left, the forms separated by commas on the right), no later
\* line mapping the form looked up, "run" a key of the dictionary and no
\* key of the lemma map, LookUp("runs") and LookUp("running") return the
\* entry LookUp("run") returns.
C2_BaseOnTheLeft ==
  \A p \in Procs, q \in Procs :
    (/\ Returned(p)
     /\ Returned(q)
     /\ \E i \in LemmaLineIndexes :
          /\ LemmaLineAt(i) = LineBaseLeft
          /\ \A j \in LemmaLineIndexes :
               j > i => ~MapsForm(LemmaLineAt(j), Padded(query[p]))
     /\ <<"r", "u", "n">> \in DOMAIN dictMapSingleton
     /\ <<"r", "u", "n">> \notin DOMAIN lemmaMapSingleton
     /\ Padded(query[p]) \in {<<"r", "u", "n", "s">>,
                              <<"r", "u", "n", "n", "i", "n", "g">>}
     /\ Padded(query[q]) = <<"r", "u", "n">>)
    => (SameAnswer(p, q) /\ result[p] # NilPtr)

\* C2, witness: "running", which has no row of its own, and "run" have
\* both been looked up
C2_Witness ==
  \E p \in Procs, q \in Procs :
    /\ Returned(p)
    /\ Returned(q)
    /\ \E i \in LemmaLineIndexes : LemmaLineAt(i) = LineBaseLeft
    /\ <<"r", "u", "n">> \in DOMAIN dictMapSingleton
    /\ <<"r", "u", "n">> \notin DOMAIN lemmaMapSingleton
    /\ <<"r", "u", "n", "n", "i", "n", "g">> \notin DOMAIN dictMapSingleton
    /\ Padded(query[p]) = <<"r", "u", "n", "n", "i", "n", "g">>
    /\ Padded(query[q]) = <<"r", "u", "n">>
    /\ result[p] # NilPtr
    /\ SameAnswer(p, q)

(***************************************************************************)
(* C3                                                                      *)
(***************************************************************************)
\* C3, as claimed: a row of another field count than 13, or with a blank
\* first field, is dropped and the load goes on: the process is not ended,
\* and once the load is done every valid row that is the last stored under
\* its word is the entry of that word.
C3_MalformedRowDropped ==
  (\E i \in RowIndexes :
     Len(ecdictCsv[i]) # 13 \/ RowWord(ecdictCsv[i]) = <<>>)
  => /\ ~fatal
     /\ initDone =>
          \A i \in RowIndexes :
            LastWriter(i, RowWord(ecdictCsv[i]))
            => /\ RowWord(ecdictCsv[i]) \in DOMAIN dictMapSingleton
               /\ dictMapSingleton[RowWord(ecdictCsv[i])]
                    = ExpectedItem(ecdictCsv[i])

(***************************************************************************)
(* C4                                                                      *)
(***************************************************************************)
\* C4: whenever init has returned and no goroutine is inside loadDict,
\* however many calls of loadDict and LookUp have been made and however
\* they interleaved, the two maps hold what init's one call of loadDict
\* left in them.
C4_LoadIdempotent ==
  (initDone /\ \A p \in Procs : ~InLoad(p))
  => /\ dictMapSingleton = firstLoad.dict
     /\ lemmaMapSingleton = firstLoad.lemma

\* C4, witness: after init, both goroutines have each been through loadDict
\* again (inside LookUp); the dictionary is loaded, the lemma map came out
\* empty and was rebuilt by each call
C4_Witness ==
  /\ initDone
  /\ \A p \in Procs : Returned(p)
  /\ MapLen(dictMapSingleton) > 0
  /\ MapLen(lemmaMapSingleton) = 0
  /\ dictMapSingleton = firstLoad.dict

(***************************************************************************)
(* C5                                                                      *)
(***************************************************************************)
\* the entry, or nothing, that key k has in the maps as init left them
FirstAnswered(p, w) ==
  LET b == IF w \in DOMAIN firstLoad.lemma THEN firstLoad.lemma[w] ELSE w
  IN  IF b \in DOMAIN firstLoad.dict
      THEN Answered(p, firstLoad.dict[b])
      ELSE result[p] = NilPtr

\* C5: a caller's write through the pointer LookUp returned leaves both
\* maps as they were, and every LookUp, before or after such writes,
\* returns the entry of the maps as they were first loaded.
C5_ResultIsSnapshot ==
  /\ [][\A p \in Procs :
          (pc[p] = "ret" /\ pc'[p] = "wrote")
          => /\ dictMapSingleton' = dictMapSingleton
             /\ lemmaMapSingleton' = lemmaMapSingleton]_vars
  /\ [](\A p \in Procs : Returned(p) => FirstAnswered(p, query[p].core))

\* C5, witness: the caller has written into the entry it was given, which
\* now differs from the entry the map holds
C5_Witness ==
  \E p \in Procs :
    /\ pc[p] = "wrote"
    /\ result[p] # NilPtr
    /\ baseWord[p] \in DOMAIN dictMapSingleton
    /\ Deref(result[p]) # dictMapSingleton[baseWord[p]]
    /\ Deref(result[p]).Word = Scribble

(***************************************************************************)
(* C6                                                                      *)
(***************************************************************************)
\* C6: two calls of LookUp whose arguments are the same word with whatever
\* white space before and after it return the same; the word is trimmed
\* before the lemma map is read, and the base word the lemma map gives is
\* the key the dictionary is read with.
C6_PaddingIgnored ==
  /\ \A p \in Procs, q \in Procs :
       (Returned(p) /\ Returned(q) /\ query[p].core = query[q].core)
       => SameAnswer(p, q)
  /\ \A p \in Procs :
       pc[p] \in {"lk_dict", "ret"}
       => /\ word[p] = query[p].core
          /\ baseWord[p] = IF word[p] \in DOMAIN lemmaMapSingleton
                           THEN lemmaMapSingleton[word[p]] ELSE word[p]
  /\ \A p \in Procs :
       Returned(p)
       => IF baseWord[p] \in DOMAIN dictMapSingleton
          THEN Answered(p, dictMapSingleton[baseWord[p]])
          ELSE result[p] = NilPtr

\* C6, witness: a word with white space on both sides and the bare word
\* have been looked up, and an entry was found
C6_Witness ==
  \E p \in Procs, q \in Procs :
    /\ Returned(p)
    /\ Returned(q)
    /\ query[p].core = query[q].core
    /\ query[p].left # <<>>
    /\ query[p].right # <<>>
    /\ query[q].left = <<>>
    /\ query[q].right = <<>>
    /\ result[p] # NilPtr
    /\ SameAnswer(p, q)

(***************************************************************************)
(* C7                                                                      *)
(***************************************************************************)
\* p was given the dictionary's entry for k, or nothing if there is none
EntryOrNothing(p, k) ==
  IF k \in DOMAIN dictMapSingleton
  THEN Answered(p, dictMapSingleton[k])
  ELSE result[p] = NilPtr

\* C7: if the word looked up is a key of the lemma map, LookUp returns the
\* dictionary's entry for the base word the lemma map gives (nothing if
\* the base word is no key), also when the word itself is a key of the
\* dictionary; only a word without a lemma mapping is looked up itself.
C7_LemmaFirst ==
  \A p \in Procs : Returned(p) =>
    IF query[p].core \in DOMAIN lemmaMapSingleton
    THEN EntryOrNothing(p, lemmaMapSingleton[query[p].core])
    ELSE EntryOrNothing(p, query[p].core)

\* C7, witness: the word looked up has an entry of its own and a lemma
\* mapping to a word with another entry, which is the one returned
C7_Witness ==
  \E p \in Procs :
    /\ Returned(p)
    /\ query[p].core \in DOMAIN lemmaMapSingleton
    /\ query[p].core \in DOMAIN dictMapSingleton
    /\ lemmaMapSingleton[query[p].core] \in DOMAIN dictMapSingleton
    /\ dictMapSingleton[lemmaMapSingleton[query[p].core]]
         # dictMapSingleton[query[p].core]
    /\ Answered(p, dictMapSingleton[lemmaMapSingleton[query[p].core]])

(***************************************************************************)
(* C8                                                                      *)
(***************************************************************************)
\* rows i < j are valid, of different words, equal in lower case
Collide(i, j) ==
  /\ i < j
  /\ ValidRow(ecdictCsv[i])
  /\ ValidRow(ecdictCsv[j])
  /\ RowWord(ecdictCsv[i]) # RowWord(ecdictCsv[j])
  /\ ToLower(RowWord(ecdictCsv[i])) = ToLower(RowWord(ecdictCsv[j]))

Holds(k, i) ==
  k \in DOMAIN dictMapSingleton
  /\ dictMapSingleton[k] = ExpectedItem(ecdictCsv[i])

\* loadDict has just stored what parseDict returned (ecdict.go:64)
AfterParseDict == \E p \in Procs : pc[p] = "ld_lemma"

\* C8, as claimed: when parseDict has returned, of two such rows, in
\* either order, the later one's data is under the lower-case key and each
\* row's data is under its own word.
C8_EachKeepsItsOwn ==
  AfterParseDict =>
    \A i \in RowIndexes, j \in RowIndexes :
      Collide(i, j)
      => /\ Holds(ToLower(RowWord(ecdictCsv[i])), j)
         /\ Holds(RowWord(ecdictCsv[i]), i)
         /\ Holds(RowWord(ecdictCsv[j]), j)

\* C8, amended: when parseDict has returned, the lower-case key holds the
\* data of the last valid row whose word lower-cases to it (the later of
\* the two when none follows);
\* the word of either row, when it is not itself the lower-case key, holds
\* the data of the last valid row of that word (the row's own when the
\* word is not repeated).
C8_LastRowWinsLowerKey ==
  AfterParseDict =>
    \A i \in RowIndexes, j \in RowIndexes :
      Collide(i, j)
      => /\ \A m \in RowIndexes :
              LastWriter(m, ToLower(RowWord(ecdictCsv[i])))
              => Holds(ToLower(RowWord(ecdictCsv[i])), m)
         /\ \A x \in {i, j} :
              (/\ RowWord(ecdictCsv[x]) # ToLower(RowWord(ecdictCsv[x]))
               /\ LastWriter(x, RowWord(ecdictCsv[x])))
              => Holds(RowWord(ecdictCsv[x]), x)

\* C8, witness: the earlier row's word is the lower-case key, and the key
\* holds the later row's data
C8_Witness ==
  /\ AfterParseDict
  /\ \E i \in RowIndexes, j \in RowIndexes :
       /\ Collide(i, j)
       /\ RowWord(ecdictCsv[i]) = ToLower(RowWord(ecdictCsv[i]))
       /\ LastWriter(j, RowWord(ecdictCsv[i]))
       /\ ExpectedItem(ecdictCsv[i]) # ExpectedItem(ecdictCsv[j])
       /\ Holds(RowWord(ecdictCsv[i]), j)
       /\ Holds(RowWord(ecdictCsv[j]), j)

(***************************************************************************)
(* C9                                                                      *)
(***************************************************************************)
\* C9: no step changes a map that is not empty; loadDict goes into
\* parseDict or parseLemma only when the map it tests is empty.
C9_PopulatedMapsStay ==
  [][/\ MapLen(dictMapSingleton) > 0
          => dictMapSingleton' = dictMapSingleton
     /\ MapLen(lemmaMapSingleton) > 0
          => lemmaMapSingleton' = lemmaMapSingleton
     /\ \A p \in Procs :
          /\ (pc[p] = "ld_dict" /\ MapLen(dictMapSingleton) > 0)
               => pc'[p] # "pd_read"
          /\ (pc[p] = "ld_lemma" /\ MapLen(lemmaMapSingleton) > 0)
               => pc'[p] # "pl_scan"]_vars

\* C9, witness: a direct call of loadDict, made with both maps populated,
\* has passed the first test without parsing
C9_Witness ==
  \E p \in Procs :
    /\ initDone
    /\ frame[p] = "loadDict"
    /\ pc[p] = "ld_lemma"
    /\ MapLen(dictMapSingleton) > 0
    /\ MapLen(lemmaMapSingleton) > 0

(***************************************************************************)
(* C10                                                                     *)
(***************************************************************************)
RECURSIVE AllRows(_, _)
AllRows(m, recs) ==
  IF recs = <<>> THEN m
  ELSE AllRows(ParseDictRow(m, Head(recs)), Tail(recs))

RECURSIVE AllLines(_, _)
AllLines(m, ls) ==
  IF ls = <<>> THEN m
  ELSE AllLines(ParseLemmaLine(m, Head(ls)), Tail(ls))

\* C10: at every moment, and so whenever a LookUp reads them, each of the
\* two maps is empty or holds the entries of its whole asset.
C10_NoPartialMap ==
  /\ dictMapSingleton \in {EmptyMap, AllRows(EmptyMap, ecdictCsv)}
  /\ lemmaMapSingleton \in {EmptyMap, AllLines(EmptyMap, ScanLines(lemmaEnTxt))}

\* C10, witness: one goroutine is about to read the dictionary while the
\* other is in the middle of parseDict, some records already read
C10_Witness ==
  \E p \in Procs, q \in Procs :
    /\ pc[p] = "lk_dict"
    /\ pc[q] = "pd_read"
    /\ r[q].pos > 1
    /\ r[q].pos <= Len(ecdictCsv)

====
